---- MODULE Spec2Model ----
(***************************************************************************)
(* Model of the persistent priority task queue (src/queue-sync/main.js).     *)
(* The engine is the class TaskQueue; one process owns one instance.  The    *)
(* model follows the methods of the class; a task object is a record, the    *)
(* reference this.currentTask is the id of the queue element it points to.  *)
(* Timestamps and the opaque provenance fields (platform, userId, metadata,  *)
(* sessionId) are not modelled: no method reads them.                        *)
(***************************************************************************)
EXTENDS Integers, Sequences, FiniteSets, TLC

\* ---------------------------------------------------------------- bounds
MaxTasks == 2          \* number of enqueue calls explored
MaxTimers == 2         \* pending setTimeout(processNext) callbacks explored
MaxRetriesCfg == 3     \* config.maxRetries ranges over 1..MaxRetriesCfg

\* ------------------------------------------------------------- constants
CRITICAL == 0
HIGH == 1
NORMAL == 2
LOW == 3
Priorities == {CRITICAL, HIGH, NORMAL, LOW}

PENDING == "pending"
PROCESSING == "processing"
COMPLETED == "completed"
FAILED == "failed"

NULL == 0              \* null reference / null id (task ids start at 1)

\* A string is a sequence of one-character strings.
NL == "\n"
SP == " "
ContentEmpty == << >>
ContentPlain == <<"a">>
ContentBullets == <<"-", SP, "a", NL, "*", SP, "b">>

\* The calls enqueue(content, {priority}) explored: a plain line at every priority,
\* and the empty string and a two-bullet text at the default priority (line 132).
EnqueueInputs ==
    ({ContentPlain} \X Priorities) \cup {<<ContentEmpty, NORMAL>>, <<ContentBullets, NORMAL>>}

VARIABLES
    queue,        \* this.queue: sequence of task records
    currentTask,  \* this.currentTask: id of the referenced task, or NULL
    state,        \* this.state: status, lastProcessed, totalProcessed, totalFailed
    progress,     \* this.progress: task id -> [completed, total]
    disk,         \* the three backing files queue.json, state.json, progress.json
    timers,       \* number of pending setTimeout(() => this.processNext(), 1000)
    config,       \* this.config: maxRetries, autoProcess
    nextId,       \* the next fresh task id (ids are unique, in creation order)
    lastOp,       \* history: the last call made, its return value, its task's state
    failCalls,    \* history: task id -> number of failTask calls made on it
    recovered     \* history: ids of tasks found PROCESSING by the last load

vars == <<queue, currentTask, state, progress, disk, timers, config, nextId,
          lastOp, failCalls, recovered>>

\* ------------------------------------------------------- string helpers
IsSpace(c) == c \in {SP, NL, "\t", "\r"}

RECURSIVE trimStart(_)
trimStart(s) ==
    IF s = << >> THEN s
    ELSE IF IsSpace(Head(s)) THEN trimStart(Tail(s)) ELSE s

RECURSIVE trimEnd(_)
trimEnd(s) ==
    IF s = << >> THEN s
    ELSE IF IsSpace(s[Len(s)]) THEN trimEnd(SubSeq(s, 1, Len(s) - 1)) ELSE s

trim(s) == trimEnd(trimStart(s))

startsWith(s, p) == Len(s) >= Len(p) /\ SubSeq(s, 1, Len(p)) = p

\* String.prototype.split on a one-character separator: never empty, "" gives [""]
RECURSIVE split(_, _)
split(s, sep) ==
    IF \A i \in 1..Len(s) : s[i] # sep THEN <<s>>
    ELSE LET k == CHOOSE i \in 1..Len(s) :
                      s[i] = sep /\ \A j \in 1..(i - 1) : s[j] # sep
         IN <<SubSeq(s, 1, k - 1)>> \o split(SubSeq(s, k + 1, Len(s)), sep)

RECURSIVE SelectLines(_)
SelectLines(ls) ==
    IF ls = << >> THEN << >>
    ELSE IF trim(Head(ls)) # << >> THEN <<Head(ls)>> \o SelectLines(Tail(ls))
         ELSE SelectLines(Tail(ls))

\* Mutant of IsBullet: only the '- ' marker is recognised
IsBullet_dashOnly(t) == startsWith(t, <<"-", SP>>)

IsBullet(t) == startsWith(t, <<"-", SP>>) \/ startsWith(t, <<"*", SP>>)

\* enqueue, lines 153-164: one sub-task per bullet line, in encounter order
RECURSIVE subTasksOf(_, _, _)
subTasksOf(id, ls, acc) ==
    IF ls = << >> THEN acc
    ELSE LET t == trim(Head(ls)) IN
         IF IsBullet(t)
         THEN subTasksOf(id, Tail(ls),
                  Append(acc, [id |-> <<id, Len(acc)>>,
                               content |-> SubSeq(t, 3, Len(t)),
                               state |-> PENDING]))
         ELSE subTasksOf(id, Tail(ls), acc)

parseSubTasks(id, content) == subTasksOf(id, SelectLines(split(content, NL)), << >>)

\* --------------------------------------------------------- queue helpers
Ids(q) == {q[i].id : i \in 1..Len(q)}

IndexOf(q, id) == IF id \in Ids(q) THEN CHOOSE i \in 1..Len(q) : q[i].id = id ELSE 0

\* Mutant of insertIndex: findIndex(t => t.priority >= priority)
insertIndex_ge(q, priority) ==
    IF \E i \in 1..Len(q) : q[i].priority >= priority
    THEN CHOOSE i \in 1..Len(q) :
             q[i].priority >= priority /\ \A j \in 1..(i - 1) : ~(q[j].priority >= priority)
    ELSE 0

\* enqueue, line 167: this.queue.findIndex(t => t.priority > priority); 0 is JS -1
insertIndex(q, priority) ==
    IF \E i \in 1..Len(q) : q[i].priority > priority
    THEN CHOOSE i \in 1..Len(q) :
             q[i].priority > priority /\ \A j \in 1..(i - 1) : ~(q[j].priority > priority)
    ELSE 0

\* enqueue, lines 168-172: splice(insertIndex, 0, task) or push(task)
insert(q, task) ==
    LET i == insertIndex(q, task.priority) IN
    IF i > 0 THEN SubSeq(q, 1, i - 1) \o <<task>> \o SubSeq(q, i, Len(q))
    ELSE Append(q, task)

\* getNextTask: index of the first PENDING task, 0 when find() gives undefined
getNextTask(q) ==
    IF \E i \in 1..Len(q) : q[i].state = PENDING
    THEN CHOOSE i \in 1..Len(q) :
             q[i].state = PENDING /\ \A j \in 1..(i - 1) : q[j].state # PENDING
    ELSE 0

\* Mutant of removeTask: this.queue.shift(), which drops the head whatever its id
removeTask_shift(q, id) == IF q = << >> THEN q ELSE Tail(q)

\* completeTask line 224, failTask line 273: this.queue.filter(t => t.id !== task.id)
removeTask(q, id) == LET Keep(t) == t.id # id IN SelectSeq(q, Keep)

\* ------------------------------------------------------------ persistence
\* A backing file is missing, unparseable, of length zero (JSON.parse('') throws),
\* or holds the JSON text of a value.
Missing == [kind |-> "missing"]
Corrupt == [kind |-> "corrupt"]
EmptyFile == [kind |-> "empty"]

\* A JSON document is a tree: null, a number, a string, an array of documents, or
\* an object, a function from keys to documents.
JNull == [t |-> "null"]
JNum(n) == [t |-> "number", v |-> n]
JStr(x) == [t |-> "string", v |-> x]
JArr(xs) == [t |-> "array", v |-> xs]
JObj(f) == [t |-> "object", v |-> f]

\* JSON.stringify writes the document of a value into a file; JSON.parse of a file
\* that holds a document gives it back, and throws on any other content.
stringify(v) == [kind |-> "json", value |-> v]
parse(f) == f.value
Parses(f) == f.kind = "json"

\* The document JSON.stringify makes of a sub-task, a task, the queue file object
\* of lines 115-118, the run state and the progress index. A null reference is
\* written as null, a task id as a string, startedAt as null or a date string.
jsonOfSubTask(st) ==
    JObj([id |-> JStr(st.id), content |-> JStr(st.content), state |-> JStr(st.state)])

jsonOfTask(t) ==
    JObj([id |-> JStr(t.id),
          content |-> JStr(t.content),
          priority |-> JNum(t.priority),
          state |-> JStr(t.state),
          startedAt |-> IF t.started THEN JStr("date") ELSE JNull,
          subTasks |-> JArr([j \in 1..Len(t.subTasks) |-> jsonOfSubTask(t.subTasks[j])]),
          retryCount |-> JNum(t.retryCount)])

jsonOfQueue(q) ==
    JObj([messages |-> JArr([i \in 1..Len(q) |-> jsonOfTask(q[i])]),
          updatedAt |-> JStr("date")])

jsonOfState(st) ==
    JObj([status |-> JStr(st.status),
          lastProcessed |-> IF st.lastProcessed = NULL THEN JNull
                            ELSE JStr(st.lastProcessed),
          totalProcessed |-> JNum(st.totalProcessed),
          totalFailed |-> JNum(st.totalFailed)])

jsonOfProgress(p) ==
    JObj([id \in DOMAIN p |->
             JObj([completed |-> JNum(p[id].completed), total |-> JNum(p[id].total)])])

\* The objects the engine holds after JSON.parse of such documents.
subTaskOfJson(j) == [id |-> j.v.id.v, content |-> j.v.content.v, state |-> j.v.state.v]

taskOfJson(j) ==
    [id |-> j.v.id.v, content |-> j.v.content.v, priority |-> j.v.priority.v,
     state |-> j.v.state.v, started |-> j.v.startedAt # JNull,
     subTasks |-> [k \in 1..Len(j.v.subTasks.v) |-> subTaskOfJson(j.v.subTasks.v[k])],
     retryCount |-> j.v.retryCount.v]

progressOfJson(j) ==
    [id \in DOMAIN j.v |-> [completed |-> j.v[id].v.completed.v, total |-> j.v[id].v.total.v]]

EmptyProgress == [k \in {} |-> NULL]

\* constructor, lines 60-70
DefaultState ==
    [status |-> "idle", lastProcessed |-> NULL, totalProcessed |-> 0, totalFailed |-> 0]

\* load, line 96: { ...this.state, ...JSON.parse(state.json) }
mergeState(st, j) ==
    [status |-> IF "status" \in DOMAIN j.v THEN j.v.status.v ELSE st.status,
     lastProcessed |-> IF "lastProcessed" \in DOMAIN j.v
                       THEN (IF j.v.lastProcessed = JNull THEN NULL ELSE j.v.lastProcessed.v)
                       ELSE st.lastProcessed,
     totalProcessed |-> IF "totalProcessed" \in DOMAIN j.v THEN j.v.totalProcessed.v
                        ELSE st.totalProcessed,
     totalFailed |-> IF "totalFailed" \in DOMAIN j.v THEN j.v.totalFailed.v
                     ELSE st.totalFailed]

\* Mutant of messagesOf: reads data.queue, a key the file never has
messagesOf_queueKey(j) ==
    IF "queue" \in DOMAIN j.v
    THEN [i \in 1..Len(j.v.queue.v) |-> taskOfJson(j.v.queue.v[i])]
    ELSE << >>

\* load, line 87: data.messages || []
messagesOf(j) ==
    IF "messages" \in DOMAIN j.v
    THEN [i \in 1..Len(j.v.messages.v) |-> taskOfJson(j.v.messages.v[i])]
    ELSE << >>

\* Mutant of load: one try/catch around the three reads, so that an unreadable
\* file leaves every resource that follows it at its default
load_oneTry(d) ==
    LET okQ == d.queue.kind = "missing" \/ Parses(d.queue)
        okS == d.state.kind = "missing" \/ Parses(d.state)
    IN [queue |-> IF Parses(d.queue) THEN messagesOf(parse(d.queue)) ELSE << >>,
        state |-> IF okQ /\ Parses(d.state) THEN mergeState(DefaultState, parse(d.state))
                  ELSE DefaultState,
        progress |-> IF okQ /\ okS /\ Parses(d.progress)
                     THEN progressOfJson(parse(d.progress)) ELSE EmptyProgress]

\* load, lines 82-108, applied to the fields the constructor has just set
load(d) ==
    [queue |-> IF d.queue.kind = "missing" THEN << >>
               ELSE IF Parses(d.queue) THEN messagesOf(parse(d.queue)) ELSE << >>,
     state |-> IF Parses(d.state) THEN mergeState(DefaultState, parse(d.state))
               ELSE DefaultState,
     progress |-> IF d.progress.kind = "missing" THEN EmptyProgress
                  ELSE IF Parses(d.progress) THEN progressOfJson(parse(d.progress))
                       ELSE EmptyProgress]

\* The engine's memory, the files and the pending timers, as one value that the
\* methods below transform.
Mem ==
    [queue |-> queue, currentTask |-> currentTask, state |-> state,
     progress |-> progress, disk |-> disk, timers |-> timers]

\* persist, lines 115-122: the contents of the three writeFileSync calls, in order
writes(m) ==
    [queue |-> stringify(jsonOfQueue(m.queue)),
     state |-> stringify(jsonOfState(m.state)),
     progress |-> stringify(jsonOfProgress(m.progress))]

\* Mutant of persist: the write of state.json is left out
persist_queueOnly(m) ==
    [m EXCEPT !.disk = [queue |-> writes(m).queue,
                        state |-> m.disk.state,
                        progress |-> writes(m).progress]]

\* persist, lines 110-123
persist(m) == [m EXCEPT !.disk = writes(m)]

\* ---------------------------------------------------------------- methods
\* Mutant of processNextAssign: starting a task sets its sub-tasks back to PENDING
processNextAssign_resetSubTasks(m) ==
    LET i == getNextTask(m.queue) IN
    IF i = 0
    THEN [m EXCEPT !.state.status = "idle", !.currentTask = NULL]
    ELSE [m EXCEPT !.currentTask = m.queue[i].id,
                   !.state.status = "processing",
                   !.queue[i].state = PROCESSING,
                   !.queue[i].started = TRUE,
                   !.queue[i].subTasks = [j \in 1..Len(m.queue[i].subTasks) |->
                                             [m.queue[i].subTasks[j] EXCEPT !.state = PENDING]]]

\* processNext, lines 193-206: the assignments made before persist is called
processNextAssign(m) ==
    LET i == getNextTask(m.queue) IN
    IF i = 0
    THEN [m EXCEPT !.state.status = "idle", !.currentTask = NULL]
    ELSE [m EXCEPT !.currentTask = m.queue[i].id,
                   !.state.status = "processing",
                   !.queue[i].state = PROCESSING,
                   !.queue[i].started = TRUE]

\* processNext, lines 191-212 (the body has no await: it runs to its return)
processNext(m) == persist(processNextAssign(m))

\* enqueue, lines 137-151: the new task object
newTask(id, content, priority) ==
    [id |-> id, content |-> content, priority |-> priority, state |-> PENDING,
     started |-> FALSE, subTasks |-> parseSubTasks(id, content), retryCount |-> 0]

\* enqueue, lines 137-172: the task is in the queue, persist not yet called
enqueueInsert(m, id, content, priority) ==
    [m EXCEPT !.queue = insert(m.queue, newTask(id, content, priority))]

\* Mutant of enqueue: the auto-start does not test the status (line 178)
enqueue_alwaysStart(m, id, content, priority) ==
    LET m1 == persist(enqueueInsert(m, id, content, priority))
    IN IF config.autoProcess THEN processNext(m1) ELSE m1

\* enqueue, lines 128-183
enqueue(m, id, content, priority) ==
    LET m1 == persist(enqueueInsert(m, id, content, priority))
    IN IF config.autoProcess /\ m1.state.status = "idle" THEN processNext(m1) ELSE m1

\* delete this.progress[id]
deleteKey(p, id) == [k \in (DOMAIN p) \ {id} |-> p[k]]

\* this.progress[id] = entry
setKey(p, id, entry) == [k \in (DOMAIN p) \cup {id} |-> IF k = id THEN entry ELSE p[k]]

\* Mutant of completeAssign: totalProcessed is not incremented
completeAssign_noCount(m) ==
    LET id == m.currentTask IN
    [m EXCEPT !.queue = removeTask(m.queue, id),
              !.state.lastProcessed = id,
              !.state.status = "idle",
              !.currentTask = NULL,
              !.progress = deleteKey(m.progress, id)]

\* completeTask, lines 218-232: the assignments made before persist is called
completeAssign(m) ==
    LET id == m.currentTask IN
    [m EXCEPT !.queue = removeTask(m.queue, id),
              !.state.lastProcessed = id,
              !.state.totalProcessed = m.state.totalProcessed + 1,
              !.state.status = "idle",
              !.currentTask = NULL,
              !.progress = deleteKey(m.progress, id)]

\* completeTask, lines 218-242: the body past the guard
completeCurrent(m) ==
    LET m1 == persist(completeAssign(m))
        m2 == IF config.autoProcess /\ Len(m1.queue) > 0
              THEN [m1 EXCEPT !.timers = m1.timers + 1] ELSE m1
    IN [m |-> m2, ret |-> "true", taskState |-> COMPLETED]

\* Mutant of completeTask: without the guard of line 216 the counters and the
\* status are updated and persisted although no task is current
completeTask_unguarded(m) ==
    IF m.currentTask = NULL
    THEN [m |-> persist([m EXCEPT !.state.totalProcessed = m.state.totalProcessed + 1,
                                  !.state.status = "idle"]),
          ret |-> "true", taskState |-> "none"]
    ELSE completeCurrent(m)

\* completeTask, lines 215-243
completeTask(m) ==
    IF m.currentTask = NULL THEN [m |-> m, ret |-> "false", taskState |-> "none"]
    ELSE completeCurrent(m)

\* Mutant of retriesExhausted: task.retryCount > this.config.maxRetries
retriesExhausted_gt(retryCount) == retryCount > config.maxRetries

\* failTask, line 269: task.retryCount >= this.config.maxRetries
retriesExhausted(retryCount) == retryCount >= config.maxRetries

\* Mutant of failAssign: a task to retry is taken out of the queue and inserted
\* again by its priority
failAssign_reinsert(m) ==
    LET id == m.currentTask
        i == IndexOf(m.queue, id)
        n == m.queue[i].retryCount + 1
        m1 == IF retriesExhausted(n)
              THEN [m EXCEPT !.state.totalFailed = m.state.totalFailed + 1,
                             !.queue = removeTask(m.queue, id)]
              ELSE [m EXCEPT !.queue = insert(removeTask(m.queue, id),
                                              [m.queue[i] EXCEPT !.retryCount = n,
                                                                 !.state = PENDING])]
    IN [m1 EXCEPT !.state.status = "idle", !.currentTask = NULL]

\* failTask, lines 266-281: the assignments made before persist is called
failAssign(m) ==
    LET id == m.currentTask
        i == IndexOf(m.queue, id)
        n == m.queue[i].retryCount + 1
        m1 == IF retriesExhausted(n)
              THEN [m EXCEPT !.state.totalFailed = m.state.totalFailed + 1,
                             !.queue = removeTask(m.queue, id)]
              ELSE [m EXCEPT !.queue[i].retryCount = n,
                             !.queue[i].state = PENDING]
    IN [m1 EXCEPT !.state.status = "idle", !.currentTask = NULL]

\* Mutant of failTask: processNext is called without the test of autoProcess
failTask_alwaysAdvance(m) ==
    IF m.currentTask = NULL THEN [m |-> m, ret |-> "false", taskState |-> "none"]
    ELSE LET id == m.currentTask
             m3 == processNext(persist(failAssign(m)))
         IN [m |-> m3, ret |-> "true",
             taskState |-> IF id \in Ids(m3.queue)
                           THEN m3.queue[IndexOf(m3.queue, id)].state ELSE FAILED]

\* failTask, lines 263-290
failTask(m) ==
    IF m.currentTask = NULL THEN [m |-> m, ret |-> "false", taskState |-> "none"]
    ELSE LET id == m.currentTask
             m2 == persist(failAssign(m))
             m3 == IF config.autoProcess THEN processNext(m2) ELSE m2
         IN [m |-> m3, ret |-> "true",
             taskState |-> IF id \in Ids(m3.queue)
                           THEN m3.queue[IndexOf(m3.queue, id)].state ELSE FAILED]

\* Mutant of progressEntry: the filter counts the sub-tasks still PENDING
progressEntry_pending(subs) ==
    [completed |-> Cardinality({k \in 1..Len(subs) : subs[k].state = PENDING}),
     total |-> Len(subs)]

\* completeSubTask, lines 252-255: { completed: ...filter(COMPLETED).length, total }
progressEntry(subs) ==
    [completed |-> Cardinality({k \in 1..Len(subs) : subs[k].state = COMPLETED}),
     total |-> Len(subs)]

\* completeSubTask, lines 246-260
completeSubTask(m, subTaskId) ==
    IF m.currentTask = NULL THEN [m |-> m, ret |-> "false"]
    ELSE LET i == IndexOf(m.queue, m.currentTask)
             subs == m.queue[i].subTasks
         IN IF \E j \in 1..Len(subs) : subs[j].id = subTaskId
            THEN LET j == CHOOSE j \in 1..Len(subs) : subs[j].id = subTaskId
                     subs1 == [subs EXCEPT ![j].state = COMPLETED]
                     entry == progressEntry(subs1)
                 IN [m |-> persist([m EXCEPT !.queue[i].subTasks = subs1,
                                             !.progress = setKey(m.progress, m.currentTask, entry)]),
                     ret |-> "true"]
            ELSE [m |-> m, ret |-> "false"]

\* pause, lines 293-297
pause(m) == persist([m EXCEPT !.state.status = "paused"])

\* Mutant of resume: the call of processNext (lines 304-306) is left out
resume_noAdvance(m) == persist([m EXCEPT !.state.status = "idle"])

\* resume, lines 300-307
resume(m) ==
    LET m1 == persist([m EXCEPT !.state.status = "idle"])
    IN IF config.autoProcess THEN processNext(m1) ELSE m1

\* Mutant of clear: only the first COMPLETED or FAILED task is removed
clear_firstTerminal(m) ==
    LET Terminal(i) == m.queue[i].state \in {COMPLETED, FAILED}
        k == IF \E i \in 1..Len(m.queue) : Terminal(i)
             THEN CHOOSE i \in 1..Len(m.queue) : Terminal(i) /\ \A j \in 1..(i - 1) : ~Terminal(j)
             ELSE 0
    IN persist([m EXCEPT !.queue = IF k = 0 THEN m.queue
                                    ELSE SubSeq(m.queue, 1, k - 1)
                                             \o SubSeq(m.queue, k + 1, Len(m.queue))])

\* Mutant of clear: the filter keeps the PENDING tasks only
clear_pendingOnly(m) ==
    LET Keep(t) == t.state = PENDING
    IN persist([m EXCEPT !.queue = SelectSeq(m.queue, Keep)])

\* clear, lines 310-316
clear(m) ==
    LET Keep(t) == t.state = PROCESSING \/ t.state = PENDING
    IN persist([m EXCEPT !.queue = SelectSeq(m.queue, Keep)])

\* ---------------------------------------------------------------- history
Op(name, ret, taskState) == [name |-> name, ret |-> ret, taskState |-> taskState]

ProcessingIds(q) == {q[i].id : i \in {j \in 1..Len(q) : q[j].state = PROCESSING}}

\* The effect of a call on the engine, the files and the timers, and on the
\* history variables that follow from it.
Commit(m) ==
    /\ queue' = m.queue
    /\ currentTask' = m.currentTask
    /\ state' = m.state
    /\ progress' = m.progress
    /\ disk' = m.disk
    /\ timers' = m.timers
    /\ recovered' = recovered \cap ProcessingIds(m.queue)

KeepFailCalls(q) ==
    failCalls' = [id \in Ids(q) |-> IF id \in DOMAIN failCalls THEN failCalls[id] ELSE 0]

\* ------------------------------------------------------------------- Init
Init ==
    /\ config \in [maxRetries : 1..MaxRetriesCfg, autoProcess : BOOLEAN]
    /\ disk = [queue |-> Missing, state |-> Missing, progress |-> Missing]
    /\ queue = load(disk).queue
    /\ state = load(disk).state
    /\ progress = load(disk).progress
    /\ currentTask = NULL
    /\ timers = 0
    /\ nextId = 1
    /\ lastOp = Op("new", "void", "none")
    /\ failCalls = [id \in {} |-> 0]
    /\ recovered = {}

\* ---------------------------------------------------------------- actions
\* queue.enqueue(content, {priority})
Enqueue(content, priority) ==
    /\ nextId <= MaxTasks
    /\ LET m == enqueue(Mem, nextId, content, priority) IN
       /\ Commit(m)
       /\ KeepFailCalls(m.queue)
       /\ lastOp' = Op("enqueue", "task", m.queue[IndexOf(m.queue, nextId)].state)
    /\ nextId' = nextId + 1
    /\ UNCHANGED config

\* an explicit queue.processNext() by the caller
ProcessNext ==
    /\ LET m == processNext(Mem) IN
       /\ Commit(m)
       /\ KeepFailCalls(m.queue)
       /\ lastOp' = Op("processNext", IF m.currentTask = NULL THEN "null" ELSE "task", "none")
    /\ UNCHANGED <<config, nextId>>

\* the callback of setTimeout(() => this.processNext(), 1000), line 239
TimerFire ==
    /\ timers > 0
    /\ LET m == processNext([Mem EXCEPT !.timers = timers - 1]) IN
       /\ Commit(m)
       /\ KeepFailCalls(m.queue)
       /\ lastOp' = Op("timer", "void", "none")
    /\ UNCHANGED <<config, nextId>>

\* queue.completeTask(result)
CompleteTask ==
    /\ LET r == completeTask(Mem) IN
       /\ r.m.timers <= MaxTimers
       /\ Commit(r.m)
       /\ KeepFailCalls(r.m.queue)
       /\ lastOp' = Op("completeTask", r.ret, r.taskState)
    /\ UNCHANGED <<config, nextId>>

\* queue.failTask(error)
FailTask ==
    /\ LET r == failTask(Mem)
           k == IF currentTask \in DOMAIN failCalls THEN failCalls[currentTask] + 1 ELSE 0
       IN
       /\ Commit(r.m)
       /\ failCalls' = [id \in Ids(r.m.queue) |->
                           IF id = currentTask THEN k
                           ELSE IF id \in DOMAIN failCalls THEN failCalls[id] ELSE 0]
       /\ lastOp' = Op("failTask", r.ret, r.taskState)
    /\ UNCHANGED <<config, nextId>>

\* the sub-task ids a caller may name: those of the queued tasks, and an unknown one
SubTaskIds ==
    UNION {{queue[i].subTasks[j].id : j \in 1..Len(queue[i].subTasks)} : i \in 1..Len(queue)}
        \cup {<<NULL, 0>>}

\* queue.completeSubTask(subTaskId)
CompleteSubTask(subTaskId) ==
    /\ LET r == completeSubTask(Mem, subTaskId) IN
       /\ Commit(r.m)
       /\ KeepFailCalls(r.m.queue)
       /\ lastOp' = Op("completeSubTask", r.ret, "none")
    /\ UNCHANGED <<config, nextId>>

\* queue.pause()
Pause ==
    /\ Commit(pause(Mem))
    /\ KeepFailCalls(queue)
    /\ lastOp' = Op("pause", "void", "none")
    /\ UNCHANGED <<config, nextId>>

\* queue.resume()
Resume ==
    /\ LET m == resume(Mem) IN
       /\ Commit(m)
       /\ KeepFailCalls(m.queue)
       /\ lastOp' = Op("resume", "void", "none")
    /\ UNCHANGED <<config, nextId>>

\* queue.clear()
Clear ==
    /\ LET m == clear(Mem) IN
       /\ Commit(m)
       /\ KeepFailCalls(m.queue)
    /\ lastOp' = Op("clear", "void", "none")
    /\ UNCHANGED <<config, nextId>>

\* the callback of setInterval(() => this.persist(), persistInterval), lines 75-77
PersistTick ==
    /\ config.autoProcess
    /\ Commit(persist(Mem))
    /\ KeepFailCalls(queue)
    /\ lastOp' = Op("persist", "void", "none")
    /\ UNCHANGED <<config, nextId>>

\* The process ends (its timers with it) and a new one runs new TaskQueue(config):
\* constructor, lines 58-78, which calls load().
Restart ==
    /\ queue' = load(disk).queue
    /\ state' = load(disk).state
    /\ progress' = load(disk).progress
    /\ currentTask' = NULL
    /\ timers' = 0
    /\ recovered' = ProcessingIds(load(disk).queue)
    /\ KeepFailCalls(load(disk).queue)
    /\ lastOp' = Op("new", "void", "none")
    /\ UNCHANGED <<disk, config, nextId>>

Next ==
    \/ \E in \in EnqueueInputs : Enqueue(in[1], in[2])
    \/ TimerFire
    \/ CompleteTask
    \/ FailTask
    \/ \E subTaskId \in SubTaskIds : CompleteSubTask(subTaskId)
    \/ Pause
    \/ Resume
    \/ Clear
    \/ PersistTick
    \/ Restart
    \/ ProcessNext

Spec == Init /\ [][Next]_vars

\* ------------------------------------------------- engine on a stored queue
\* load (lines 86-87) takes whatever task list the queue file holds, without
\* looking at the states of the tasks. SpecStored starts the engine on a queue
\* file of up to MaxStored tasks in any of the four states, so that clear() has
\* terminal tasks to remove.
MaxStored == 3

storedTask(id, st) ==
    [newTask(id, IF id = 1 THEN ContentBullets ELSE ContentPlain, NORMAL) EXCEPT !.state = st]

StoredQueues ==
    UNION {{[i \in 1..n |-> storedTask(i, f[i])] :
                f \in [1..n -> {PENDING, PROCESSING, COMPLETED, FAILED}]} : n \in 0..MaxStored}

InitStored ==
    /\ config \in [maxRetries : 1..MaxRetriesCfg, autoProcess : BOOLEAN]
    /\ \E q \in StoredQueues :
          /\ disk = [queue |-> stringify(jsonOfQueue(q)), state |-> Missing,
                     progress |-> Missing]
          /\ nextId = Len(q) + 1
    /\ queue = load(disk).queue
    /\ state = load(disk).state
    /\ progress = load(disk).progress
    /\ currentTask = NULL
    /\ timers = 0
    /\ lastOp = Op("new", "void", "none")
    /\ failCalls = [id \in Ids(load(disk).queue) |-> 0]
    /\ recovered = ProcessingIds(load(disk).queue)

NextStored ==
    \/ Clear
    \/ ProcessNext
    \/ \E subTaskId \in SubTaskIds : CompleteSubTask(subTaskId)
    \/ Pause

SpecStored == InitStored /\ [][NextStored]_vars

\* ------------------------------------------------------- control surface
\* The requests explored: a POST /enqueue body {content, priority} with each of
\* the four levels as a number, and `task-queue enqueue a --priority <word>` with
\* each of the four level names.
HttpBodies ==
    {JObj([content |-> JStr(ContentPlain), priority |-> JNum(p)]) : p \in Priorities}

LevelNames == {"critical", "high", "normal", "low"}

CliArgs == {<<"enqueue", "a", "--priority", w>> : w \in LevelNames}

\* PRIORITY, lines 41-46: the level a name stands for
levelOf(w) ==
    CASE w = "critical" -> CRITICAL
      [] w = "high" -> HIGH
      [] w = "normal" -> NORMAL
      [] w = "low" -> LOW

\* JavaScript's a || b on a parsed JSON value: b when a is undefined, null, 0 or ""
orElse(doc, key, default) ==
    IF key \notin DOMAIN doc.v THEN default
    ELSE IF doc.v[key] = JNull THEN default
    ELSE IF doc.v[key].t = "number" /\ doc.v[key].v = 0 THEN default
    ELSE IF doc.v[key].t = "string" /\ doc.v[key].v = "" THEN default
    ELSE doc.v[key].v

\* POST /enqueue, line 403: priority: data.priority || PRIORITY.NORMAL
httpPriority(data) == orElse(data, "priority", NORMAL)

\* main, lines 511-513: only the word 'high' is looked for
cliPriority(args) ==
    IF \E i \in 1..Len(args) : args[i] = "--priority"
    THEN LET i == CHOOSE k \in 1..Len(args) :
                     args[k] = "--priority" /\ \A l \in 1..(k - 1) : args[l] # "--priority"
         IN IF i < Len(args) /\ args[i + 1] = "high" THEN HIGH ELSE NORMAL
    ELSE NORMAL

\* main, line 505: args.slice(1).join(' ')
RECURSIVE joinSpace(_)
joinSpace(ws) ==
    IF Len(ws) = 0 THEN << >>
    ELSE IF Len(ws) = 1 THEN <<ws[1]>>
    ELSE <<ws[1], SP>> \o joinSpace(Tail(ws))

cliContent(args) == joinSpace(Tail(args))

\* POST /enqueue, lines 393-413, on the engine of the server process
HttpEnqueue(data) ==
    /\ nextId <= MaxTasks
    /\ LET m == enqueue(Mem, nextId, data.v.content.v, httpPriority(data)) IN
       /\ Commit(m)
       /\ KeepFailCalls(m.queue)
       /\ lastOp' = [name |-> "POST /enqueue", ret |-> "task",
                     taskState |-> m.queue[IndexOf(m.queue, nextId)].state,
                     requested |-> data.v.priority.v]
    /\ nextId' = nextId + 1
    /\ UNCHANGED config

\* `task-queue enqueue ...`, lines 489-515: main() runs in a process of its own,
\* builds an engine on the files (line 500) and calls enqueue on it (line 514).
\* From here on the variables describe that engine.
CliEnqueue(args) ==
    /\ nextId <= MaxTasks
    /\ LET m0 == [queue |-> load(disk).queue, currentTask |-> NULL,
                  state |-> load(disk).state, progress |-> load(disk).progress,
                  disk |-> disk, timers |-> 0]
           m == enqueue(m0, nextId, cliContent(args), cliPriority(args))
       IN /\ queue' = m.queue
          /\ currentTask' = m.currentTask
          /\ state' = m.state
          /\ progress' = m.progress
          /\ disk' = m.disk
          /\ timers' = m.timers
          /\ recovered' = ProcessingIds(m0.queue) \cap ProcessingIds(m.queue)
          /\ KeepFailCalls(m.queue)
          /\ lastOp' = [name |-> "cli enqueue", ret |-> "task",
                        taskState |-> m.queue[IndexOf(m.queue, nextId)].state,
                        requested |-> levelOf(args[4])]
    /\ nextId' = nextId + 1
    /\ UNCHANGED config

NextSurface ==
    \/ \E data \in HttpBodies : HttpEnqueue(data)
    \/ \E args \in CliArgs : CliEnqueue(args)
    \/ CompleteTask
    \/ TimerFire

SpecSurface == Init /\ [][NextSurface]_vars

\* --------------------------------------------------- failing file writes
\* persist (lines 110-123) calls writeFileSync three times with no try/catch
\* around them: queue file, state file, progress file. When the call number
\* k + 1 throws, the first k files hold the new contents, the later ones the old,
\* and the file being written is untouched (the open failed) or truncated (the
\* write failed after the open).
FilesBefore == {0, 1, 2}

torn(d, w, k) ==
    [queue |-> IF k >= 1 THEN w.queue ELSE d.queue,
     state |-> IF k >= 2 THEN w.state ELSE d.state,
     progress |-> d.progress]

failedWrite(d, w, k, truncated) ==
    IF ~truncated THEN torn(d, w, k)
    ELSE CASE k = 0 -> [torn(d, w, k) EXCEPT !.queue = Corrupt]
           [] k = 1 -> [torn(d, w, k) EXCEPT !.state = Corrupt]
           [] k = 2 -> [torn(d, w, k) EXCEPT !.progress = Corrupt]

\* persist, left by the exception of its write number k + 1
persistThrows(m, k, truncated) ==
    [m EXCEPT !.disk = failedWrite(m.disk, writes(m), k, truncated)]

\* The process runs; it has ended when an exception reached the event loop or
\* when it was killed.
Alive == lastOp.ret \notin {"uncaught", "killed"}

\* enqueue when the persist of line 174 throws: the exception leaves enqueue, so
\* lines 175-182 do not run. The HTTP handler catches it and answers 400 (405-408).
EnqueueIOError(content, priority, k, truncated) ==
    /\ nextId <= MaxTasks
    /\ LET m == persistThrows(enqueueInsert(Mem, nextId, content, priority), k, truncated) IN
       /\ Commit(m)
       /\ KeepFailCalls(m.queue)
    /\ lastOp' = Op("enqueue", "throws", PENDING)
    /\ nextId' = nextId + 1
    /\ UNCHANGED config

\* completeTask when the persist of line 234 throws: lines 235-242 do not run
CompleteTaskIOError(k, truncated) ==
    /\ currentTask # NULL
    /\ LET m == persistThrows(completeAssign(Mem), k, truncated) IN
       /\ Commit(m)
       /\ KeepFailCalls(m.queue)
    /\ lastOp' = Op("completeTask", "throws", COMPLETED)
    /\ UNCHANGED <<config, nextId>>

\* failTask when the persist of line 282 throws: lines 284-289 do not run
FailTaskIOError(k, truncated) ==
    /\ currentTask # NULL
    /\ LET m == persistThrows(failAssign(Mem), k, truncated)
           n == IF currentTask \in DOMAIN failCalls THEN failCalls[currentTask] + 1 ELSE 0
       IN
       /\ Commit(m)
       /\ failCalls' = [id \in Ids(m.queue) |->
                           IF id = currentTask THEN n
                           ELSE IF id \in DOMAIN failCalls THEN failCalls[id] ELSE 0]
       /\ lastOp' = Op("failTask", "throws",
                       IF currentTask \in Ids(m.queue) THEN PENDING ELSE FAILED)
    /\ UNCHANGED <<config, nextId>>

\* the setInterval callback of line 76 when persist throws: nothing catches the
\* exception, which ends the process
PersistTickIOError(k, truncated) ==
    /\ config.autoProcess
    /\ Commit(persistThrows(Mem, k, truncated))
    /\ KeepFailCalls(queue)
    /\ lastOp' = Op("persist", "uncaught", "none")
    /\ UNCHANGED <<config, nextId>>

NextIOError ==
    \/ Alive /\ \E in \in EnqueueInputs : Enqueue(in[1], in[2])
    \/ Alive /\ CompleteTask
    \/ Alive /\ FailTask
    \/ Alive /\ TimerFire
    \/ Alive /\ PersistTick
    \/ Alive /\ \E in \in EnqueueInputs, k \in FilesBefore, truncated \in BOOLEAN :
                    EnqueueIOError(in[1], in[2], k, truncated)
    \/ Alive /\ \E k \in FilesBefore, truncated \in BOOLEAN : CompleteTaskIOError(k, truncated)
    \/ Alive /\ \E k \in FilesBefore, truncated \in BOOLEAN : FailTaskIOError(k, truncated)
    \/ Alive /\ \E k \in FilesBefore, truncated \in BOOLEAN : PersistTickIOError(k, truncated)
    \/ Restart

SpecIOError == Init /\ [][NextIOError]_vars

\* ------------------------------------------------ crash inside persist
\* The process is killed between two of the three writes of persist: k files
\* hold the new contents, the others the old. The engine's memory is gone; the
\* next thing that happens is a new process (Restart).
CrashPoints == {1, 2}

Killed(name, d) ==
    /\ disk' = d
    /\ queue' = << >>
    /\ currentTask' = NULL
    /\ state' = DefaultState
    /\ progress' = EmptyProgress
    /\ timers' = 0
    /\ recovered' = {}
    /\ failCalls' = [id \in {} |-> 0]
    /\ lastOp' = Op(name, "killed", "none")

\* enqueue, killed inside the persist of line 174
EnqueueCrash(content, priority, k) ==
    /\ nextId <= MaxTasks
    /\ Killed("enqueue", torn(disk, writes(enqueueInsert(Mem, nextId, content, priority)), k))
    /\ nextId' = nextId + 1
    /\ UNCHANGED config

\* enqueue, killed inside the persist of the processNext it calls (lines 178-179, 208)
EnqueueAdvanceCrash(content, priority, k) ==
    /\ nextId <= MaxTasks
    /\ LET m1 == persist(enqueueInsert(Mem, nextId, content, priority)) IN
       /\ config.autoProcess /\ m1.state.status = "idle"
       /\ Killed("enqueue", torn(m1.disk, writes(processNextAssign(m1)), k))
    /\ nextId' = nextId + 1
    /\ UNCHANGED config

\* completeTask, killed inside the persist of line 234
CompleteTaskCrash(k) ==
    /\ currentTask # NULL
    /\ Killed("completeTask", torn(disk, writes(completeAssign(Mem)), k))
    /\ UNCHANGED <<config, nextId>>

\* failTask, killed inside the persist of line 282
FailTaskCrash(k) ==
    /\ currentTask # NULL
    /\ Killed("failTask", torn(disk, writes(failAssign(Mem)), k))
    /\ UNCHANGED <<config, nextId>>

\* The operations of one engine without resume, an explicit processNext and the
\* auto-advance timer, whose effect on a running task is the subject of C1.
NextCrash ==
    \/ Alive /\ \E in \in EnqueueInputs : Enqueue(in[1], in[2])
    \/ Alive /\ CompleteTask
    \/ Alive /\ FailTask
    \/ Alive /\ \E subTaskId \in SubTaskIds : CompleteSubTask(subTaskId)
    \/ Alive /\ Pause
    \/ Alive /\ PersistTick
    \/ Alive /\ \E in \in EnqueueInputs, k \in CrashPoints : EnqueueCrash(in[1], in[2], k)
    \/ Alive /\ \E in \in EnqueueInputs, k \in CrashPoints : EnqueueAdvanceCrash(in[1], in[2], k)
    \/ Alive /\ \E k \in CrashPoints : CompleteTaskCrash(k)
    \/ Alive /\ \E k \in CrashPoints : FailTaskCrash(k)
    \/ Restart

SpecCrash == Init /\ [][NextCrash]_vars

\* ------------------------------------------------------------- progress
\* One engine with autoProcess on and a caller that follows the processing flow:
\* it reports the end of a task with completeTask or failTask as long as a task
\* is PROCESSING, a pause is followed by a resume, and a scheduled timer fires.
InitLive == Init /\ config.autoProcess

CallerReports == ProcessingIds(queue) # {} /\ (CompleteTask \/ FailTask)

PauseRunning == state.status # "paused" /\ Pause

ResumePaused == state.status = "paused" /\ Resume

NextLive ==
    \/ \E in \in EnqueueInputs : Enqueue(in[1], in[2])
    \/ CallerReports
    \/ TimerFire
    \/ PauseRunning
    \/ ResumePaused

SpecLive ==
    /\ InitLive
    /\ [][NextLive]_vars
    /\ WF_vars(CallerReports)
    /\ WF_vars(TimerFire)
    /\ WF_vars(ResumePaused)

\* ------------------------------------------------- engine on found files
\* The constructor runs load (line 72) on whatever the three files are when the
\* process starts: each of them missing, empty, unparseable, or a document that
\* an earlier process wrote.
FoundQueueFiles ==
    {Missing, EmptyFile, Corrupt,
     stringify(jsonOfQueue(<<storedTask(1, PENDING), storedTask(2, PROCESSING)>>))}

FoundStateFiles ==
    {Missing, EmptyFile, Corrupt,
     stringify(jsonOfState([status |-> "paused", lastProcessed |-> NULL,
                            totalProcessed |-> 0, totalFailed |-> 1]))}

FoundProgressFiles ==
    {Missing, EmptyFile, Corrupt,
     stringify(jsonOfProgress((1 :> [completed |-> 1, total |-> 2])))}

InitFound ==
    /\ config \in [maxRetries : 1..MaxRetriesCfg, autoProcess : BOOLEAN]
    /\ disk \in [queue : FoundQueueFiles, state : FoundStateFiles,
                 progress : FoundProgressFiles]
    /\ nextId = 3
    /\ queue = load(disk).queue
    /\ state = load(disk).state
    /\ progress = load(disk).progress
    /\ currentTask = NULL
    /\ timers = 0
    /\ lastOp = Op("new", "void", "none")
    /\ failCalls = [id \in Ids(load(disk).queue) |-> 0]
    /\ recovered = ProcessingIds(load(disk).queue)

NextFound ==
    \/ Restart
    \/ Alive /\ ProcessNext
    \/ Alive /\ \E subTaskId \in SubTaskIds : CompleteSubTask(subTaskId)
    \/ Alive /\ Pause
    \/ Alive /\ \E k \in FilesBefore, truncated \in BOOLEAN : PersistTickIOError(k, truncated)

SpecFound == InitFound /\ [][NextFound]_vars

\* ------------------------------------------------------ sub-task parsing
\* enqueue on an empty engine with every text of up to MaxTextLen characters over
\* the characters that matter to lines 154-157, and two longer texts with
\* several bullet lines.
MaxTextLen == 4

TextChars == {"-", "*", SP, NL, "a"}

Texts ==
    UNION {[1..n -> TextChars] : n \in 0..MaxTextLen}
        \cup {ContentBullets, <<"a", NL, "-", SP, "a", NL, NL, SP, "*", SP, "a", SP>>}

EnqueueText(content) == nextId = 1 /\ Enqueue(content, NORMAL)

NextParse ==
    \/ \E content \in Texts : EnqueueText(content)
    \/ \E subTaskId \in SubTaskIds : CompleteSubTask(subTaskId)

SpecParse == Init /\ [][NextParse]_vars

\* ================================================================ claims
TaskOf(q, id) == q[IndexOf(q, id)]

\* C1: in every reachable state at most one task of the queue has state PROCESSING.
C1_AtMostOneProcessing == Cardinality(ProcessingIds(queue)) <= 1

\* C2: any two PENDING tasks a before b in the queue have priority(a) <= priority(b),
\* and with equal priority a was enqueued before b (ids grow in enqueue order);
\* after enqueueing HIGH and then CRITICAL the queue holds both tasks with the
\* CRITICAL one at its head.
C2_PriorityOrder ==
    /\ \A i, j \in 1..Len(queue) :
          (i < j /\ queue[i].state = PENDING /\ queue[j].state = PENDING) =>
              /\ queue[i].priority <= queue[j].priority
              /\ (queue[i].priority = queue[j].priority => queue[i].id < queue[j].id)
    /\ (/\ Ids(queue) = {1, 2}
        /\ TaskOf(queue, 1).priority = HIGH
        /\ TaskOf(queue, 2).priority = CRITICAL) => (Len(queue) = 2 /\ Head(queue).id = 2)

\* C2 witness: HIGH was enqueued, then CRITICAL; both are PENDING, CRITICAL first.
C2_Witness ==
    /\ lastOp.name = "enqueue"
    /\ Len(queue) = 2
    /\ queue[1].id = 2 /\ queue[1].priority = CRITICAL /\ queue[1].state = PENDING
    /\ queue[2].id = 1 /\ queue[2].priority = HIGH /\ queue[2].state = PENDING

\* C3: while the engine is paused (from a pause() to the next resume()) no enqueue,
\* completeTask, failTask or delayed auto-advance (no step but resume() or a
\* caller's own processNext()) starts a task, and status stays 'paused'.
C3_NoStartWhilePaused ==
    [][(state.status = "paused" /\ lastOp'.name \notin {"resume", "processNext"}) =>
          (state'.status = "paused" /\ ProcessingIds(queue') \subseteq ProcessingIds(queue))]_vars

\* C4 as stated: the k-th consecutive failTask on a task leaves retryCount = k; for
\* k < maxRetries the task is PENDING; at k = maxRetries it is FAILED, removed from
\* the queue, and totalFailed has grown by exactly 1.
C4_PendingUntilExhausted ==
    [][(lastOp'.name = "failTask" /\ currentTask # NULL) =>
          LET id == currentTask
              k == failCalls[id] + 1
          IN /\ lastOp'.ret = "true"
             /\ TaskOf(queue, id).retryCount + 1 = k
             /\ k <= config.maxRetries
             /\ IF k < config.maxRetries
                THEN /\ id \in Ids(queue')
                     /\ TaskOf(queue', id).retryCount = k
                     /\ TaskOf(queue', id).state = PENDING
                     /\ state'.totalFailed = state.totalFailed
                ELSE /\ lastOp'.taskState = FAILED
                     /\ id \notin Ids(queue')
                     /\ state'.totalFailed = state.totalFailed + 1]_vars

\* C4 amended: as C4, but for k < maxRetries the task is in the queue and not
\* terminal: PENDING, or PROCESSING when the auto-advance inside failTask has
\* taken it again as the first PENDING task (it is then the current task).
C4_RetryUntilExhausted ==
    [][(lastOp'.name = "failTask" /\ currentTask # NULL) =>
          LET id == currentTask
              k == failCalls[id] + 1
          IN /\ lastOp'.ret = "true"
             /\ TaskOf(queue, id).retryCount + 1 = k
             /\ k <= config.maxRetries
             /\ IF k < config.maxRetries
                THEN /\ id \in Ids(queue')
                     /\ TaskOf(queue', id).retryCount = k
                     /\ \/ TaskOf(queue', id).state = PENDING /\ currentTask' # id
                        \/ /\ TaskOf(queue', id).state = PROCESSING
                           /\ currentTask' = id
                           /\ config.autoProcess
                     /\ state'.totalFailed = state.totalFailed
                ELSE /\ lastOp'.taskState = FAILED
                     /\ id \notin Ids(queue')
                     /\ state'.totalFailed = state.totalFailed + 1]_vars

\* C4 witness: with maxRetries = 3 the third failTask has just made the only task
\* FAILED: the queue is empty and totalFailed is 1.
C4_Witness ==
    /\ lastOp = Op("failTask", "true", FAILED)
    /\ config.maxRetries = 3
    /\ nextId = 2
    /\ queue = << >>
    /\ state.totalFailed = 1

\* C5: when the last load found a task in PROCESSING state, a completeTask or
\* failTask call returns true and takes a recovered task out of PROCESSING.
C5_RecoveredResolvable ==
    [][(lastOp'.name \in {"completeTask", "failTask"} /\ recovered # {}) =>
          (lastOp'.ret = "true" /\ recovered' # recovered)]_vars

\* C6: while a task found PROCESSING by the last load is still PROCESSING, none of
\* enqueue, pause, resume, clear and the periodic flush moves another task to
\* PROCESSING.
C6_NoSecondAfterRecovery ==
    [][(/\ recovered # {}
        /\ recovered' = recovered
        /\ lastOp'.name \in {"enqueue", "pause", "resume", "clear", "persist"}) =>
          ProcessingIds(queue') \subseteq ProcessingIds(queue)]_vars

MutatingOps ==
    {"enqueue", "processNext", "timer", "completeTask", "failTask", "completeSubTask",
     "pause", "resume", "clear"}

\* C7: after each mutating operation has finished, what load() reads back from the
\* files is the Queue, QueueRunState and ProgressIndex in memory, so a reload has
\* every task that was PENDING or PROCESSING.
C7_PersistedEqualsMemory ==
    lastOp.name \in MutatingOps =>
        /\ load(disk).queue = queue
        /\ load(disk).state = state
        /\ load(disk).progress = progress
        /\ \A i \in 1..Len(queue) :
              queue[i].state \in {PENDING, PROCESSING} =>
                  \E j \in 1..Len(load(disk).queue) : load(disk).queue[j] = queue[i]

\* C7 witness: the delayed auto-advance has started a task after a completion, and
\* the files hold that task as PROCESSING with the counters of the completion.
C7_Witness ==
    /\ lastOp.name = "timer"
    /\ currentTask # NULL
    /\ state.totalProcessed = 1
    /\ Parses(disk.queue) /\ Parses(disk.state)
    /\ \E j \in 1..Len(load(disk).queue) :
          /\ load(disk).queue[j].id = currentTask
          /\ load(disk).queue[j].state = PROCESSING
    /\ load(disk).state.status = "processing"
    /\ load(disk).state.totalProcessed = 1

\* C8: completeTask and failTask called with no current task return false and
\* leave the queue, the run state, the progress index and the files unchanged.
C8_NoCurrentNoEffect ==
    [][(lastOp'.name \in {"completeTask", "failTask"} /\ currentTask = NULL) =>
          /\ lastOp'.ret = "false"
          /\ UNCHANGED <<queue, currentTask, state, progress, disk, timers>>]_vars

\* C8 witness: completeTask has returned false on an engine that holds a task but
\* has no current task.
C8_Witness ==
    /\ lastOp = Op("completeTask", "false", "none")
    /\ currentTask = NULL
    /\ Len(queue) > 0

\* C9: completeTask with a current task returns true, makes that task COMPLETED,
\* removes exactly that task from the queue, adds 1 to totalProcessed, leaves
\* totalFailed, sets status idle and leaves no current task; with one enqueued
\* task the result is totalProcessed = 1, an empty queue and status idle.
C9_CompleteTask ==
    [][(lastOp'.name = "completeTask" /\ currentTask # NULL) =>
          LET at == IndexOf(queue, currentTask) IN
          /\ lastOp'.ret = "true"
          /\ lastOp'.taskState = COMPLETED
          /\ at > 0
          /\ Len(queue') = Len(queue) - 1
          /\ \A i \in 1..Len(queue') : queue'[i] = queue[IF i < at THEN i ELSE i + 1]
          /\ state'.totalProcessed = state.totalProcessed + 1
          /\ state'.totalFailed = state.totalFailed
          /\ state'.status = "idle"
          /\ currentTask' = NULL
          /\ (Len(queue) = 1 /\ state.totalProcessed = 0) =>
                (state'.totalProcessed = 1 /\ queue' = << >>)]_vars

\* C9 witness: the single enqueued task has just been completed.
C9_Witness ==
    /\ lastOp = Op("completeTask", "true", COMPLETED)
    /\ nextId = 2
    /\ queue = << >>
    /\ state.totalProcessed = 1
    /\ state.status = "idle"
    /\ currentTask = NULL

\* C10: enqueue with empty content is rejected before any mutation, so no task
\* with empty content is ever in the queue or in the persisted queue.
C10_EmptyContentRejected ==
    /\ \A i \in 1..Len(queue) : queue[i].content # ContentEmpty
    /\ \A j \in 1..Len(load(disk).queue) : load(disk).queue[j].content # ContentEmpty

\* C14: every key of the progress index is the id of a task in the queue (the entry
\* of a task is removed when the task becomes COMPLETED or FAILED).
C14_ProgressOfQueuedTasks == DOMAIN progress \subseteq Ids(queue)

\* C15: resume() returns with status idle when it starts nothing; with autoProcess
\* on, no current task and a PENDING task in the queue it makes the first PENDING
\* task in queue order the current task, PROCESSING, and changes no other task.
C15_ResumeStartsFirstPending ==
    [][lastOp'.name = "resume" =>
          IF config.autoProcess /\ currentTask = NULL
                /\ \E i \in 1..Len(queue) : queue[i].state = PENDING
          THEN \E i \in 1..Len(queue) :
                  /\ queue[i].state = PENDING
                  /\ \A j \in 1..(i - 1) : queue[j].state # PENDING
                  /\ currentTask' = queue[i].id
                  /\ Len(queue') = Len(queue)
                  /\ queue'[i].state = PROCESSING
                  /\ \A j \in 1..Len(queue) : j # i => queue'[j] = queue[j]
                  /\ state'.status = "processing"
          ELSE (~config.autoProcess \/ \A i \in 1..Len(queue) : queue[i].state # PENDING)
                  => (state'.status = "idle" /\ ProcessingIds(queue') = ProcessingIds(queue))]_vars

\* C15 witness: after pause(), enqueue(t), resume() the only task t is current and
\* PROCESSING (autoProcess on).
C15_Witness ==
    /\ lastOp.name = "resume"
    /\ config.autoProcess
    /\ nextId = 2
    /\ Len(queue) = 1
    /\ queue[1].state = PROCESSING
    /\ queue[1].retryCount = 0
    /\ currentTask = queue[1].id
    /\ state.status = "processing"

\* C16: an enqueue made with autoProcess on, status idle and no current task
\* returns with status 'processing' and exactly one PROCESSING task, the first
\* task of the queue that was PENDING, which has the lowest priority value of the
\* PENDING tasks and among those the lowest id.
C16_EnqueueStartsOne ==
    [][(lastOp'.name = "enqueue" /\ config.autoProcess /\ state.status = "idle"
            /\ currentTask = NULL) =>
          /\ state'.status = "processing"
          /\ Cardinality(ProcessingIds(queue')) = 1
          /\ currentTask' \in ProcessingIds(queue')
          /\ \A i \in 1..Len(queue') :
                queue'[i].state = PENDING =>
                    \/ TaskOf(queue', currentTask').priority < queue'[i].priority
                    \/ /\ TaskOf(queue', currentTask').priority = queue'[i].priority
                       /\ currentTask' < queue'[i].id]_vars

C18_ClearRemovesTerminalOnly ==
    [][lastOp'.name = "clear" =>
          /\ Ids(queue') = {queue[i].id : i \in {j \in 1..Len(queue) :
                                  queue[j].state \in {PENDING, PROCESSING}}}
          /\ Len(queue') = Cardinality(Ids(queue'))
          /\ \A i \in 1..Len(queue') : queue'[i] = TaskOf(queue, queue'[i].id)
          /\ \A i, j \in 1..Len(queue') :
                i < j => IndexOf(queue, queue'[i].id) < IndexOf(queue, queue'[j].id)
          /\ UNCHANGED <<currentTask, state, progress>>]_vars

\* C18 witness: clear() has removed the second of three stored tasks; the first
\* is the current task, PROCESSING, with a progress entry, and the third is
\* PENDING behind it.
C18_Witness ==
    /\ lastOp.name = "clear"
    /\ nextId = 4
    /\ Len(queue) = 2
    /\ queue[1].id = 1 /\ queue[1].state = PROCESSING
    /\ queue[2].id = 3 /\ queue[2].state = PENDING
    /\ currentTask = 1
    /\ state.status = "processing"
    /\ 1 \in DOMAIN progress

\* C17: the task created by a POST /enqueue with priority p, or by a CLI enqueue
\* with --priority <name>, has exactly the requested level as its priority.
C17_PriorityPassedUnchanged ==
    lastOp.name \in {"POST /enqueue", "cli enqueue"} =>
        TaskOf(queue, nextId - 1).priority = lastOp.requested

\* C11: when a write of persist fails, the operation still returns its normal
\* result, leaves the memory as the operation without the failure does (the
\* auto-advance to the next task included), and the process keeps running, also
\* when the failure happens in the periodic flush.
C11_PersistFailureContained ==
    [][/\ \A in \in EnqueueInputs, k \in FilesBefore, truncated \in BOOLEAN :
             EnqueueIOError(in[1], in[2], k, truncated) =>
                 LET n == enqueue(Mem, nextId, in[1], in[2]) IN
                 /\ lastOp'.ret = "task"
                 /\ queue' = n.queue /\ currentTask' = n.currentTask /\ state' = n.state
       /\ \A k \in FilesBefore, truncated \in BOOLEAN :
             CompleteTaskIOError(k, truncated) =>
                 LET n == completeTask(Mem).m IN
                 /\ lastOp'.ret = "true"
                 /\ queue' = n.queue /\ state' = n.state /\ timers' = n.timers
       /\ \A k \in FilesBefore, truncated \in BOOLEAN :
             FailTaskIOError(k, truncated) =>
                 LET n == failTask(Mem).m IN
                 /\ lastOp'.ret = "true"
                 /\ queue' = n.queue /\ currentTask' = n.currentTask /\ state' = n.state
       /\ \A k \in FilesBefore, truncated \in BOOLEAN :
             PersistTickIOError(k, truncated) => Alive']_vars

\* C12: the queue and the run state a new engine has loaded belong to one
\* persisted snapshot: status is not 'idle' while a loaded task is PROCESSING,
\* and every task enqueued so far is either in the loaded queue or counted in
\* totalProcessed or totalFailed.
C12_LoadedSnapshotConsistent ==
    lastOp.name = "new" =>
        /\ ProcessingIds(queue) # {} => state.status # "idle"
        /\ Len(queue) + state.totalProcessed + state.totalFailed = nextId - 1

\* C13: with autoProcess on, finitely many enqueues, every pause followed by a
\* resume, timers that fire and a caller that keeps reporting while a task is
\* PROCESSING, every task leaves the queue as COMPLETED or FAILED: from some point
\* on the queue is empty.
C13_QueueEventuallyEmpty == <>[](queue = << >>)

\* C21: with autoProcess off, no step other than an explicit processNext makes a
\* task PROCESSING: enqueue, completeTask, failTask, resume and every other
\* operation leave the set of PROCESSING tasks as it was or smaller.
C21_NoStartWithoutAutoProcess ==
    [][(~config.autoProcess /\ lastOp'.name # "processNext") =>
          ProcessingIds(queue') \subseteq ProcessingIds(queue)]_vars

\* C21 witness: with autoProcess off a failTask has put the only task back to
\* PENDING for a retry and nothing has started it again.
C21_Witness ==
    /\ ~config.autoProcess
    /\ lastOp = Op("failTask", "true", PENDING)
    /\ Len(queue) = 1
    /\ queue[1].state = PENDING
    /\ queue[1].retryCount = 1
    /\ currentTask = NULL
    /\ state.status = "idle"

\* C22: what a new engine has loaded is, for each of the three files on its own,
\* the empty queue, the default run state or the empty progress index when the
\* file is missing, empty or unparseable, and the contents of the file otherwise.
C22_LoadToleratesBadFiles ==
    lastOp.name = "new" =>
        /\ queue = IF disk.queue.kind \in {"missing", "empty", "corrupt"} THEN << >>
                   ELSE [i \in 1..Len(parse(disk.queue).v.messages.v) |->
                            taskOfJson(parse(disk.queue).v.messages.v[i])]
        /\ state = IF disk.state.kind \in {"missing", "empty", "corrupt"}
                   THEN [status |-> "idle", lastProcessed |-> NULL,
                         totalProcessed |-> 0, totalFailed |-> 0]
                   ELSE [f \in {"status", "lastProcessed", "totalProcessed", "totalFailed"} |->
                            IF parse(disk.state).v[f] = JNull THEN NULL
                            ELSE parse(disk.state).v[f].v]
        /\ DOMAIN progress =
               IF disk.progress.kind \in {"missing", "empty", "corrupt"} THEN {}
               ELSE DOMAIN progressOfJson(parse(disk.progress))
        /\ \A id \in DOMAIN progress : progress[id] = progressOfJson(parse(disk.progress))[id]

\* C22 witness: the periodic flush of an engine with a started task and a
\* completed sub-task failed while writing the progress file and left it
\* truncated; the next engine has loaded the queue and the run state from their
\* files and has an empty progress index.
C22_Witness ==
    /\ lastOp.name = "new"
    /\ disk.progress = Corrupt
    /\ Parses(disk.queue) /\ Parses(disk.state)
    /\ DOMAIN progress = {}
    /\ Len(queue) = 2
    /\ queue[1].state = PROCESSING
    /\ queue[1].subTasks[1].state = COMPLETED
    /\ state.status = "processing"

\* C23: after a clear(), a second clear() right behind it changes neither the
\* queue nor the current task, the run state or the progress index.
C23_ClearIdempotent ==
    lastOp.name = "clear" =>
        /\ clear(Mem).queue = queue
        /\ clear(Mem).currentTask = currentTask
        /\ clear(Mem).state = state
        /\ clear(Mem).progress = progress

\* C23 witness: clear() has removed two of three stored tasks and left the
\* third, the current task, in the queue.
C23_Witness ==
    /\ lastOp.name = "clear"
    /\ nextId = 4
    /\ Len(queue) = 1
    /\ queue[1].id = 2
    /\ queue[1].state = PROCESSING
    /\ currentTask = 2

\* The sub-tasks of task t are those of its bullet lines, one per line and in
\* line order, where Text(l) is the text of line l in which the marker is looked
\* for: ids count the bullet lines from 0, the content is the text behind the
\* two characters of the marker, the state is PENDING.
SubTasksOfBulletLines(t, Text(_)) ==
    LET lines == split(t.content, NL)
        Marked(i) == /\ Len(Text(lines[i])) >= 2
                     /\ Text(lines[i])[1] \in {"-", "*"}
                     /\ Text(lines[i])[2] = SP
        B == {i \in 1..Len(lines) : Marked(i)}
    IN /\ Len(t.subTasks) = Cardinality(B)
       /\ \A i \in B :
             LET n == Cardinality({b \in B : b < i}) IN
             t.subTasks[n + 1] = [id |-> <<t.id, n>>,
                                  content |-> SubSeq(Text(lines[i]), 3, Len(Text(lines[i]))),
                                  state |-> PENDING]

WholeLine(l) == l

IdSeq(q) == [i \in 1..Len(q) |-> q[i].id]

\* A failTask step that leaves its task retryable keeps the order of the queue,
\* adds 1 to the task's retryCount, leaves the task in one of the states
\* AfterRetry and changes no counter of the task or of the run state besides;
\* and no step at all lowers the retryCount of a task.
RetryInPlace(AfterRetry) ==
    /\ (lastOp'.name = "failTask" /\ lastOp'.ret = "true" /\ lastOp'.taskState # FAILED) =>
          LET i == IndexOf(queue, currentTask) IN
          /\ IdSeq(queue') = IdSeq(queue)
          /\ queue'[i].retryCount = queue[i].retryCount + 1
          /\ queue'[i].state \in AfterRetry
          /\ queue'[i].state = PROCESSING => (config.autoProcess /\ currentTask' = queue[i].id)
          /\ [queue'[i] EXCEPT !.state = queue[i].state, !.started = queue[i].started,
                               !.retryCount = queue[i].retryCount] = queue[i]
          /\ state'.totalFailed = state.totalFailed
          /\ state'.totalProcessed = state.totalProcessed
    /\ \A id \in Ids(queue) \cap Ids(queue') :
          TaskOf(queue', id).retryCount >= TaskOf(queue, id).retryCount

\* C25 as stated: a failTask that leaves the task retryable leaves it PENDING at
\* its position in the queue, the order of the queue is unchanged, retryCount is
\* the only counter changed, and no operation lowers a retryCount.
C25_RetryPendingInPlace == [][RetryInPlace({PENDING})]_vars

\* C25 amended: the same, but when failTask returns the task is PENDING, or
\* PROCESSING again when the auto-advance inside failTask has taken it as the
\* first PENDING task (it is then the current task, still at its position).
C25_RetryInPlace == [][RetryInPlace({PENDING, PROCESSING})]_vars

\* C25 witness: the task that was failed is PENDING with retryCount 1 in the
\* second place of the queue, behind a CRITICAL task enqueued after it.
C25_Witness ==
    /\ lastOp.name = "failTask"
    /\ lastOp.ret = "true"
    /\ Len(queue) = 2
    /\ queue[1].id = 2 /\ queue[1].priority = CRITICAL /\ queue[1].retryCount = 0
    /\ queue[2].id = 1 /\ queue[2].state = PENDING /\ queue[2].retryCount = 1

\* C26: for every task that stays in the queue, a step keeps the number, the ids
\* and the contents of its sub-tasks, and a sub-task that is COMPLETED stays
\* COMPLETED; a sub-task is PENDING or COMPLETED.
C26_SubTasksOnlyComplete ==
    [][\A id \in Ids(queue) \cap Ids(queue') :
          LET old == TaskOf(queue, id).subTasks
              new == TaskOf(queue', id).subTasks
          IN /\ Len(new) = Len(old)
             /\ \A j \in 1..Len(old) :
                   /\ new[j].id = old[j].id
                   /\ new[j].content = old[j].content
                   /\ new[j].state \in {PENDING, COMPLETED}
                   /\ old[j].state = COMPLETED => new[j].state = COMPLETED]_vars

\* C26 witness: a task with one COMPLETED and one PENDING sub-task has been
\* failed, retried and started again; its sub-tasks are as they were.
C26_Witness ==
    /\ lastOp.name = "failTask"
    /\ lastOp.ret = "true"
    /\ Len(queue) = 1
    /\ queue[1].retryCount = 1
    /\ queue[1].state = PROCESSING
    /\ Len(queue[1].subTasks) = 2
    /\ queue[1].subTasks[1].state = COMPLETED
    /\ queue[1].subTasks[2].state = PENDING

\* C27: in every reachable state every PROCESSING task of the queue is the
\* engine's current task.
C27_ProcessingIsCurrent == ProcessingIds(queue) \subseteq {currentTask}

\* C28: when the delayed processNext of completeTask fires while a task is
\* current (another operation has started one since), it starts no further task
\* and leaves the current task unchanged.
C28_LateTimerStartsNothing ==
    [][(lastOp'.name = "timer" /\ currentTask # NULL) =>
          /\ currentTask' = currentTask
          /\ ProcessingIds(queue') = ProcessingIds(queue)]_vars

\* C29: in every reachable state the queue holds only PENDING and PROCESSING
\* tasks and the number of enqueues made so far equals the length of the queue
\* plus totalProcessed plus totalFailed; no step lowers totalProcessed or
\* totalFailed.
C29_Conservation ==
    /\ [](/\ \A i \in 1..Len(queue) : queue[i].state \in {PENDING, PROCESSING}
          /\ nextId - 1 = Len(queue) + state.totalProcessed + state.totalFailed)
    /\ [][/\ state'.totalProcessed >= state.totalProcessed
          /\ state'.totalFailed >= state.totalFailed]_vars

\* C29 witness: two tasks were enqueued; one has been completed and the other
\* has failed for good, and the queue is empty.
C29_Witness ==
    /\ nextId = 3
    /\ queue = << >>
    /\ state.totalProcessed = 1
    /\ state.totalFailed = 1

\* C30: in every reachable state the current task, when there is one, is in the
\* queue and PROCESSING; and an enqueue made while a task is current leaves the
\* current task and every existing task as they were, keeps their order, and adds
\* the new task as PENDING, also when it is more urgent than the current task.
C30_NoPreemption ==
    /\ [](currentTask # NULL =>
             (currentTask \in Ids(queue) /\ TaskOf(queue, currentTask).state = PROCESSING))
    /\ [][(lastOp'.name = "enqueue" /\ currentTask # NULL) =>
             /\ currentTask' = currentTask
             /\ Len(queue') = Len(queue) + 1
             /\ Ids(queue') = Ids(queue) \cup {nextId}
             /\ \A id \in Ids(queue) : TaskOf(queue', id) = TaskOf(queue, id)
             /\ \A i, j \in 1..Len(queue) :
                   i < j => IndexOf(queue', queue[i].id) < IndexOf(queue', queue[j].id)
             /\ TaskOf(queue', nextId).state = PENDING]_vars

\* C30 witness: a CRITICAL task was enqueued while a NORMAL task was current; it
\* is at the head of the queue, PENDING, and the NORMAL task is still the current
\* task, PROCESSING.
C30_Witness ==
    /\ lastOp = Op("enqueue", "task", PENDING)
    /\ Len(queue) = 2
    /\ queue[1].id = 2 /\ queue[1].priority = CRITICAL /\ queue[1].state = PENDING
    /\ queue[2].id = 1 /\ queue[2].priority = NORMAL /\ queue[2].state = PROCESSING
    /\ currentTask = 1
    /\ state.status = "processing"

====
